---- MODULE Spec2Model ----
(***************************************************************************)
(* Model of inception_score (src/inception_score.py, lines 9-64): the      *)
(* batched inference loop over the images, followed by the per-split       *)
(* KL aggregation and the final (mean, std).                               *)
(*                                                                         *)
(* Numbers.  Probabilities are exact rationals <<num, den>>.  A logarithm  *)
(* of a positive rational is kept exactly, as the vector of its prime      *)
(* valuations (log q = SUM_p v_p(q) * log p), so that sums, differences    *)
(* and rational multiples of logarithms are exact and two of them are      *)
(* equal iff their vectors are.  The IEEE special values that numpy        *)
(* produces (log 0 = -inf, inf - inf = nan, 0 * inf = nan, the mean of an  *)
(* empty array = nan) are modelled as such.  Rounding of finite float32    *)
(* values is not modelled.                                                 *)
(***************************************************************************)
EXTENDS Integers, Sequences, FiniteSets

\* ------------------------------------------------------------------ bounds
MaxN == 3
MaxBatch == 3
MaxSplits == 3
\* ys has 1008 columns in the source; the model keeps NumClasses of them
NumClasses == 2

\* defaults of the signature (line 9)
DefaultBatchSize == 25
DefaultSplits == 10

Classes == 1 .. NumClasses
Pixels == {0, 1}
Kinds == {"uniform", "onehot", "perimage"}

\* --------------------------------------------------------------- rationals
RECURSIVE GCD(_, _)
GCD(a, b) == IF b = 0 THEN a ELSE GCD(b, a % b)

Abs(a) == IF a < 0 THEN -a ELSE a

Rat(a, b) ==
    LET s == IF b < 0 THEN -1 ELSE 1
        g == GCD(Abs(a), Abs(b))
    IN  <<(s * a) \div g, (s * b) \div g>>

RZero == <<0, 1>>
ROne == <<1, 1>>
RAdd(x, y) == Rat(x[1] * y[2] + y[1] * x[2], x[2] * y[2])
RSub(x, y) == Rat(x[1] * y[2] - y[1] * x[2], x[2] * y[2])
RMul(x, y) == Rat(x[1] * y[1], x[2] * y[2])
RDivInt(x, k) == Rat(x[1], x[2] * k)

\* -------------------------------------------------- logarithms, IEEE values
PrimeMax == NumClasses * (NumClasses + 1) * (MaxN + 1)
Primes == {p \in 2 .. PrimeMax : \A d \in 2 .. (p - 1) : p % d # 0}

RECURSIVE Val(_, _)
Val(p, x) == IF x % p = 0 THEN 1 + Val(p, x \div p) ELSE 0

\* a vector of coefficients keeps the primes whose coefficient is not zero
VNorm(f) == [p \in {q \in DOMAIN f : f[q] # RZero} |-> f[p]]
Coef(v, p) == IF p \in DOMAIN v THEN v[p] ELSE RZero
VZero == [p \in {} |-> RZero]
VAdd(u, v) ==
    VNorm([p \in (DOMAIN u) \cup (DOMAIN v) |-> RAdd(Coef(u, p), Coef(v, p))])
VSub(u, v) ==
    VNorm([p \in (DOMAIN u) \cup (DOMAIN v) |-> RSub(Coef(u, p), Coef(v, p))])
VScale(q, v) == VNorm([p \in DOMAIN v |-> RMul(q, v[p])])
\* the valuations of a positive rational
VLog(q) ==
    VNorm([p \in {r \in Primes : q[1] % r = 0 \/ q[2] % r = 0} |->
              <<Val(p, q[1]) - Val(p, q[2]), 1>>])

\* a float: k is its kind, q a finite rational (kind "rat"), v the exponent
\* vector of a finite logarithm (kind "log") or of its exponential ("exp")
Float(k, q, v, of) == [k |-> k, q |-> q, v |-> v, of |-> of]
NaN == Float("nan", RZero, VZero, <<>>)
NegInf == Float("ninf", RZero, VZero, <<>>)
PosInf == Float("pinf", RZero, VZero, <<>>)
FRat(q) == Float("rat", q, VZero, <<>>)
FLog(v) == Float("log", RZero, v, <<>>)
FExp(v) == Float("exp", RZero, v, <<>>)
FOne == FExp(VZero)
FZero == FRat(RZero)
\* no float at all: the slot of a value that was never produced
None == Float("none", RZero, VZero, <<>>)

\* xp.log of a probability (a finite rational or nan)
Log(x) ==
    IF x.k # "rat" THEN NaN
    ELSE IF x.q[1] < 0 THEN NaN
    ELSE IF x.q[1] = 0 THEN NegInf
    ELSE FLog(VLog(x.q))

\* a - b on logarithms
LSub(a, b) ==
    IF a.k = "nan" \/ b.k = "nan" THEN NaN
    ELSE IF a.k = "log" /\ b.k = "log" THEN FLog(VSub(a.v, b.v))
    ELSE IF a.k = b.k THEN NaN
    ELSE IF a.k = "ninf" \/ b.k = "pinf" THEN NegInf
    ELSE PosInf

\* a + b on logarithms
LAdd(a, b) ==
    IF a.k = "nan" \/ b.k = "nan" THEN NaN
    ELSE IF a.k = "log" /\ b.k = "log" THEN FLog(VAdd(a.v, b.v))
    ELSE IF a.k = "log" THEN b
    ELSE IF b.k = "log" THEN a
    ELSE IF a.k = b.k THEN a
    ELSE NaN

\* x * a, x a probability (finite, >= 0) and a a logarithm
LMul(x, a) ==
    IF a.k = "nan" \/ x.k # "rat" THEN NaN
    ELSE IF a.k = "log" THEN FLog(VScale(x.q, a.v))
    ELSE IF x.q[1] = 0 THEN NaN
    ELSE IF x.q[1] > 0 THEN a
    ELSE IF a.k = "ninf" THEN PosInf ELSE NegInf

RECURSIVE LSum(_)
LSum(s) == IF s = <<>> THEN FLog(VZero) ELSE LAdd(Head(s), LSum(Tail(s)))

\* xp.mean of a vector of logarithm-valued floats; empty -> nan
LMean(s) ==
    LET t == LSum(s)
    IN  IF s = <<>> THEN NaN
        ELSE IF t.k = "log" THEN FLog(VScale(<<1, Len(s)>>, t.v))
        ELSE t

\* xp.exp
Exp(a) ==
    IF a.k = "log" THEN FExp(a.v)
    ELSE IF a.k = "ninf" THEN FZero
    ELSE a

\* xp.mean of the scores (a function on 0 .. S-1)
Mean(sc) ==
    LET D == DOMAIN sc
    IN  IF D = {} THEN NaN
        ELSE IF \E j \in D : sc[j].k = "nan" THEN NaN
        ELSE IF \E j \in D : sc[j].k = "pinf" THEN PosInf
        ELSE IF \A j, l \in D : sc[j] = sc[l] THEN sc[CHOOSE j \in D : TRUE]
        ELSE Float("avg", RZero, VZero, [j \in 1 .. Cardinality(D) |-> sc[j - 1]])

\* xp.std of the scores (population standard deviation)
Std(sc) ==
    LET D == DOMAIN sc
    IN  IF D = {} THEN NaN
        ELSE IF \E j \in D : sc[j].k \in {"nan", "pinf"} THEN NaN
        ELSE IF \A j, l \in D : sc[j] = sc[l] THEN FZero
        ELSE Float("dev", RZero, VZero, [j \in 1 .. Cardinality(D) |-> sc[j - 1]])

\* -------------------------------------------------------------- classifier
UniformRow == [c \in Classes |-> <<1, NumClasses>>]
OneHotRow == [c \in Classes |-> IF c = 1 THEN ROne ELSE RZero]
SkewRow(px) ==
    [c \in Classes |-> IF c = px + 1 THEN <<2, NumClasses + 1>>
                                     ELSE <<1, NumClasses + 1>>]
ZeroRow == [c \in Classes |-> RZero]

\* the softmax row the stub classifier returns for one image
Classify(kind, px) ==
    CASE kind = "uniform" -> UniformRow
      [] kind = "onehot" -> OneHotRow
      [] OTHER -> SkewRow(px)

\* what a row of xp.empty may hold when it is read before being written
GarbageRows == {OneHotRow, SkewRow(0), SkewRow(1)}

\* ------------------------------------------------------------------- state
VARIABLES
    n, ims, shape,          \* ims.shape[0], the images, (w, h)
    model,                  \* the classifier (which stub)
    failAt,                 \* the batch on which the classifier raises, or -1
    batch_size, splits,     \* the configuration
    config, saved,          \* chainer.config and what using_config saved
    pc, err,                \* position in inception_score; the exception
    n_batches, i,           \* locals
    batch,                  \* ims_batch of the running iteration
    ys, written,            \* the softmax container; writes per row
    visited,                \* times each image was handed to the model
    calls,                  \* log of the classifier invocations
    scores, stored,         \* split scores; writes per split index
    parts,                  \* log of the splits scored
    result,                 \* the returned (mean, std)
    run, prev               \* which run this is; outcome of the run before

vars == <<n, ims, shape, model, failAt, batch_size, splits, config, saved,
          pc, err, n_batches, i, batch, ys, written, visited, calls,
          scores, stored, parts, result, run, prev>>

inputs == <<n, ims, shape, model, failAt, batch_size, splits>>

NoBatch == [lo |-> 0, hi |-> 0, px |-> <<>>, w |-> 0, h |-> 0, view |-> FALSE]
NoResult == [mean |-> None, std |-> None]
NoPrev == [pc |-> "none", err |-> "none", calls |-> <<>>, result |-> NoResult,
           ys |-> <<>>, scores |-> <<>>]

\* the locals and logs of a call that has not started yet
Fresh ==
    /\ pc = "start" /\ err = "none"
    /\ n_batches = 0 /\ i = 0 /\ batch = NoBatch
    /\ ys = <<>>
    /\ written = [r \in 0 .. n - 1 |-> 0]
    /\ visited = [r \in 0 .. n - 1 |-> 0]
    /\ calls = <<>>
    /\ scores = <<>> /\ stored = <<>> /\ parts = <<>>
    /\ result = NoResult
    /\ saved = config

InitCommon ==
    /\ shape \in {<<299, 299>>, <<32, 32>>}
    /\ model \in Kinds
    /\ failAt \in -1 .. 1
    /\ config \in {[train |-> TRUE, enable_backprop |-> TRUE],
                   [train |-> TRUE, enable_backprop |-> FALSE]}
    /\ run = 1 /\ prev = NoPrev
    /\ Fresh

\* the stubs that ignore the image are run on one image batch only
Init ==
    /\ n \in 0 .. MaxN
    /\ model \in Kinds
    /\ ims \in IF model = "perimage" THEN [0 .. n - 1 -> Pixels]
                                     ELSE {[r \in 0 .. n - 1 |-> 0]}
    /\ batch_size \in -1 .. MaxBatch
    /\ splits \in -1 .. MaxSplits
    /\ InitCommon

\* the scenario of 100 images with the default configuration
InitScenario ==
    /\ n = 100
    /\ ims \in {[r \in 0 .. n - 1 |-> px] : px \in Pixels}
    /\ batch_size = DefaultBatchSize
    /\ splits = DefaultSplits
    /\ InitCommon

\* ----------------------------------------------------------------- helpers
Min(a, b) == IF a < b THEN a ELSE b

\* the number of batches rounded down instead of up
NBatchesFloor(N, B) ==
    IF B > 0 THEN N \div B ELSE -(N \div (-B))

\* one batch more than the full ones, also when no image is left for it
NBatchesPlusOne(N, B) ==
    IF B > 0 THEN (N \div B) + 1 ELSE -(N \div (-B))

\* int(math.ceil(float(n) / float(batch_size))), batch_size # 0  (line 21)
NBatches(N, B) ==
    IF B > 0 THEN (N + B - 1) \div B ELSE -(N \div (-B))

\* a loop that stops one iteration early
InRangeShort(k, m) == k < m - 1
\* for i in range(m): k is the next value of i, and the loop goes on
\* (lines 34, 57)
InRange(k, m) == k < m

\* the rows a[lo:hi] selects from an array of N rows (lo, hi >= 0)
Slice(lo, hi, N) == {r \in 0 .. N - 1 : lo <= r /\ r < hi}

BatchStart(k, B) == k * B
BatchEnd(k, B, N) == Min((k + 1) * B, N)

\* every part taken from the first row on
SplitLoFromZero(k, N, S) == 0
SplitLo(k, N, S) == (k * N) \div S
\* the end of a split taken as its start plus a fixed block of N // S rows
SplitHiBlock(k, N, S) == SplitLo(k, N, S) + (N \div S)
\* the end of a split taken as its last row instead of one past it
SplitHiInclusive(k, N, S) == (((k + 1) * N) \div S) - 1
SplitHi(k, N, S) == ((k + 1) * N) \div S

\* F.resize_images(ims_batch, (299, 299)) when (w, h) != (299, 299)
\* (lines 46-47)
\* the resized batch is a new array; otherwise the batch stays the slice of
\* ims it was, which shares the memory of ims
Resize(b) ==
    IF <<b.w, b.h>> # <<299, 299>>
    THEN [b EXCEPT !.w = 299, !.h = 299, !.view = FALSE]
    ELSE b

\* x -= 128.0 and x *= 0.0078125 done in place on the array behind x, the
\* pixels kept in units of 1/128
PreprocessInPlace(base, b) ==
    IF b.view
    THEN [r \in DOMAIN base |->
             IF b.lo <= r /\ r < b.hi THEN base[r] - 128 ELSE base[r]]
    ELSE base

\* the caller's array after x -= 128.0; x *= 0.0078125 in Inception.__call__
\* (lines 589-590): x is a chainer Variable, which has no in-place operators,
\* so both statements bind x to a new Variable and leave the array alone
Preprocess(base, b) == base

\* using_config('train', False), using_config('enable_backprop', False)
EnterConfig(cfg) == [train |-> FALSE, enable_backprop |-> FALSE]
\* the restore skipped when the block is left by an exception
ExitConfigNoFinally(cfg, old, raised) == IF raised THEN cfg ELSE old
\* leaving the with block, on return and on exception alike
ExitConfig(cfg, old, raised) == old

\* the exception caught and the loop continued
AfterCallSwallow(fails, k) ==
    [pc |-> "batches", i |-> k + 1,
     err |-> IF fails THEN "ClassifierError" ELSE "none"]

\* an exception of the classifier leaves the loop and the function; a
\* normal return goes on to the next iteration  (lines 34, 51)
AfterCall(fails, k) ==
    IF fails THEN [pc |-> "raised", i |-> k, err |-> "ClassifierError"]
             ELSE [pc |-> "batches", i |-> k + 1, err |-> "none"]

\* ------------------------------------------------------------- aggregation
\* xp.mean(part, 0)[c]: the column mean of the rows (a sequence of rows)
RECURSIVE ColSum(_, _)
ColSum(rows, c) ==
    IF rows = <<>> THEN RZero ELSE RAdd(Head(rows)[c], ColSum(Tail(rows), c))

\* the column sum taken for the column mean
MarginalSum(rows) ==
    [c \in Classes |-> IF rows = <<>> THEN NaN ELSE FRat(ColSum(rows, c))]

Marginal(rows) ==
    [c \in Classes |->
        IF rows = <<>> THEN NaN ELSE FRat(RDivInt(ColSum(rows, c), Len(rows)))]

\* part * (log(part) - log(marginal)) at one cell, given log(marginal)
\* (lines 59-60)
KLCell(x, logm) == LMul(FRat(x), LSub(Log(FRat(x)), logm))

\* xp.sum(kl, 1) for one row
KLRow(row, logm) == LSum([c \in Classes |-> KLCell(row[c], logm[c])])

\* xp.mean(xp.sum(kl, 1)), given the marginal  (line 61)
KL(rows, marg) ==
    LET logm == CHOOSE f \in {[c \in Classes |-> Log(marg[c])]} : TRUE
    IN  LMean([r \in 1 .. Len(rows) |-> KLRow(rows[r], logm)])

\* a row of xp.empty that was neither written nor read yet: what it holds
\* is fixed when it is first read
Undetermined(r) == written[r] = 0 /\ ys[r] = ZeroRow

\* ----------------------------------------------------------------- actions
\* lines 20-32: shape, n_batches, the softmax container
Call ==
    /\ pc = "start"
    /\ IF batch_size = 0
       THEN /\ pc' = "raised"
            /\ err' = "ZeroDivisionError"
            /\ UNCHANGED <<n_batches, ys, written>>
       ELSE /\ n_batches' = NBatches(n, batch_size)
            /\ ys' = [r \in 0 .. n - 1 |-> ZeroRow]
            /\ written' = [r \in 0 .. n - 1 |-> 0]
            /\ pc' = "batches"
            /\ err' = err
    /\ i' = 0
    /\ UNCHANGED <<inputs, config, saved, batch, visited, calls, scores,
                   stored, parts, result, run, prev>>

\* lines 34-50: one iteration up to the entry of the with block
EnterBatch ==
    /\ pc = "batches"
    /\ InRange(i, n_batches)
    /\ LET batch_start == BatchStart(i, batch_size)
           batch_end == BatchEnd(i, batch_size, n)
           rows == Slice(batch_start, batch_end, n)
           lo == IF rows = {} THEN 0 ELSE CHOOSE r \in rows : \A q \in rows : r <= q
           ims_batch == [lo |-> batch_start, hi |-> batch_end,
                         px |-> [j \in 1 .. Cardinality(rows) |-> ims[lo + j - 1]],
                         w |-> shape[1], h |-> shape[2], view |-> TRUE]
       IN  batch' = Resize(ims_batch)
    /\ saved' = config
    /\ config' = EnterConfig(config)
    /\ pc' = "infer"
    /\ UNCHANGED <<inputs, err, n_batches, i, ys, written, visited, calls,
                   scores, stored, parts, result, run, prev>>

\* lines 51-52: the classifier call, the exit of the with block, the write
Infer ==
    /\ pc = "infer"
    /\ LET rows == Slice(batch.lo, batch.hi, n)
           fails == (failAt = i)
       IN  /\ calls' = Append(calls, [index |-> i, view |-> batch.view,
                                      lo |-> batch.lo, hi |-> batch.hi,
                                      size |-> Len(batch.px),
                                      train |-> config.train,
                                      enable_backprop |-> config.enable_backprop])
           /\ visited' = [r \in 0 .. n - 1 |->
                             IF r \in rows THEN visited[r] + 1 ELSE visited[r]]
           /\ config' = ExitConfig(config, saved, fails)
           /\ pc' = AfterCall(fails, i).pc
           /\ i' = AfterCall(fails, i).i
           /\ err' = AfterCall(fails, i).err
           /\ IF fails
              THEN UNCHANGED <<ys, written>>
              ELSE /\ ys' = [r \in 0 .. n - 1 |->
                               IF r \in rows
                               THEN Classify(model, batch.px[r - batch.lo + 1])
                               ELSE ys[r]]
                   /\ written' = [r \in 0 .. n - 1 |->
                               IF r \in rows THEN written[r] + 1 ELSE written[r]]
    /\ ims' = Preprocess(ims, batch)
    /\ batch' = NoBatch
    /\ UNCHANGED <<n, shape, model, failAt, batch_size, splits, saved,
                   n_batches, scores, stored, parts, result, run, prev>>

\* line 56: the batch loop is over; scores = xp.empty((splits))
AllocScores ==
    /\ pc = "batches"
    /\ ~InRange(i, n_batches)
    /\ IF splits < 0
       THEN /\ pc' = "raised"
            /\ err' = "ValueError"
            /\ UNCHANGED <<scores, stored>>
       ELSE /\ scores' = [j \in 0 .. splits - 1 |-> NaN]
            /\ stored' = [j \in 0 .. splits - 1 |-> 0]
            /\ pc' = "splits"
            /\ err' = err
    /\ i' = 0
    /\ UNCHANGED <<inputs, config, saved, n_batches, batch, ys, written,
                   visited, calls, parts, result, run, prev>>

\* lines 57-62: one split; a row never written holds whatever xp.empty left
ScoreSplit ==
    /\ pc = "splits"
    /\ InRange(i, splits)
    /\ LET lo == SplitLo(i, n, splits)
           hi == SplitHi(i, n, splits)
           rows == Slice(lo, hi, n)
           first == IF rows = {} THEN 0 ELSE CHOOSE r \in rows : \A q \in rows : r <= q
       IN  \E g \in [{r \in rows : Undetermined(r)} -> GarbageRows] :
           \E mem \in {[r \in 0 .. n - 1 |->
                            IF r \in DOMAIN g THEN g[r] ELSE ys[r]]} :
           \E part \in {[j \in 1 .. Cardinality(rows) |-> mem[first + j - 1]]} :
           \E marg \in {Marginal(part)} :
           \E kl \in {KL(part, marg)} :
                 /\ ys' = mem
                 /\ scores' = [scores EXCEPT ![i] = Exp(kl)]
                 /\ stored' = [stored EXCEPT ![i] = @ + 1]
                 /\ parts' = Append(parts,
                        [index |-> i, lo |-> lo, hi |-> hi, size |-> Len(part),
                         marginal |-> marg, kl |-> kl,
                         fresh |-> {r \in rows : written[r] = 0}])
    /\ i' = i + 1
    /\ UNCHANGED <<inputs, config, saved, pc, err, n_batches, batch,
                   written, visited, calls, result, run, prev>>

\* line 64
Return ==
    /\ pc = "splits"
    /\ ~InRange(i, splits)
    /\ result' = [mean |-> Mean(scores), std |-> Std(scores)]
    /\ pc' = "done"
    /\ UNCHANGED <<inputs, config, saved, err, n_batches, i, batch, ys,
                   written, visited, calls, scores, stored, parts, run, prev>>

Next == Call \/ EnterBatch \/ Infer \/ AllocScores \/ ScoreSplit \/ Return

Spec == Init /\ [][Next]_vars

SpecScenario == InitScenario /\ [][Next]_vars

\* a call has ended and the next one starts: what is kept of the one that
\* ended, and the fresh locals of the next
Restart ==
    /\ run = 1
    /\ pc \in {"done", "raised"}
    /\ prev' = [pc |-> pc, err |-> err, calls |-> calls, result |-> result,
                ys |-> ys, scores |-> scores]
    /\ run' = 2
    /\ pc' = "start" /\ err' = "none"
    /\ n_batches' = 0 /\ i' = 0 /\ batch' = NoBatch
    /\ ys' = <<>>
    /\ written' = [r \in 0 .. n - 1 |-> 0]
    /\ visited' = [r \in 0 .. n - 1 |-> 0]
    /\ calls' = <<>>
    /\ scores' = <<>> /\ stored' = <<>> /\ parts' = <<>>
    /\ result' = NoResult
    /\ UNCHANGED <<config, saved>>

\* the caller calls inception_score a second time with the same arguments
Rerun ==
    /\ Restart
    /\ UNCHANGED inputs

\* the caller calls inception_score a second time with as many other
\* images (with the same ones when batch_size is not positive, as no image
\* is classified then)
RerunOther ==
    /\ Restart
    /\ ims' \in IF batch_size > 0 THEN [0 .. n - 1 -> Pixels] ELSE {ims}
    /\ UNCHANGED <<n, shape, model, failAt, batch_size, splits>>

NextTwice == Next \/ Rerun

InitTwice ==
    /\ Init
    /\ shape = <<299, 299>>
    /\ config.enable_backprop

SpecTwice == InitTwice /\ [][NextTwice]_vars

NextPair == Next \/ RerunOther

\* two calls on image batches of the same size, classified image by image;
\* the first call starts from one image batch only when its batch_size is
\* not positive, as no image is classified then
InitPair ==
    /\ n \in 0 .. MaxN
    /\ batch_size \in -1 .. MaxBatch
    /\ ims \in IF batch_size > 0 THEN [0 .. n - 1 -> Pixels]
                                 ELSE {[r \in 0 .. n - 1 |-> 0]}
    /\ splits \in -1 .. MaxSplits
    /\ InitCommon
    /\ model = "perimage"
    /\ failAt = -1
    /\ shape = <<299, 299>>
    /\ config.enable_backprop

SpecPair == InitPair /\ [][NextPair]_vars

InitLive ==
    /\ Init
    /\ shape = <<299, 299>>
    /\ config.enable_backprop

\* the steps of lines 20-56: up to the end of the batch loop
BatchLoopStep == Call \/ EnterBatch \/ Infer \/ AllocScores

\* inception_score is one thread of control: it does not stop while the
\* batch loop has a step to take
SpecLive == InitLive /\ [][Next]_vars /\ WF_vars(BatchLoopStep)

\* ================================================================== claims
\* the batch loop ran to its end
LoopDone == pc \in {"splits", "done"} \/ (pc = "raised" /\ err = "ValueError")

RECURSIVE SumSizes(_)
SumSizes(log) == IF log = <<>> THEN 0 ELSE Head(log).size + SumSizes(Tail(log))

\* C1: for every N >= 0 and batch_size >= 1 the batches are the row ranges
\* [k*batch_size, min((k+1)*batch_size, N)); they follow one another without
\* gap or overlap from 0 to N; no image is handed to the classifier twice
\* and no row of ys is written twice, and once the loop is over every image
\* was handed over exactly once and every row written exactly once.
BatchesPartitionRows ==
    batch_size >= 1 =>
        /\ \A r \in 0 .. n - 1 :
              /\ visited[r] <= 1 /\ written[r] <= visited[r]
              /\ LoopDone => visited[r] = 1 /\ written[r] = 1
        /\ \A k \in 1 .. Len(calls) :
              /\ calls[k].lo = (k - 1) * batch_size
              /\ calls[k].hi = Min(k * batch_size, n)
              /\ calls[k].lo < calls[k].hi
              /\ calls[k].size = calls[k].hi - calls[k].lo
              /\ k > 1 => calls[k].lo = calls[k - 1].hi
        /\ LoopDone /\ n > 0 => calls[Len(calls)].hi = n

\* a run whose last batch is smaller than batch_size has returned
BatchesPartitionRowsWitness ==
    /\ pc = "done" /\ n = 3 /\ batch_size = 2
    /\ Len(calls) = 2 /\ calls[2].size = 1
    /\ \A r \in 0 .. n - 1 : written[r] = 1

\* C2: when S >= 1 does not divide N, every split has floor(N/S) or
\* floor(N/S)+1 rows, each split starts where the one before ended, the
\* first at row 0 and the last ending at row N, every row lies in exactly
\* one split, and the sizes sum to N.
UnevenSplitsPartitionRows ==
    (splits >= 1 /\ n % splits # 0) =>
        /\ \A k \in 1 .. Len(parts) :
              /\ parts[k].size \in {n \div splits, (n \div splits) + 1}
              /\ parts[k].size = parts[k].hi - parts[k].lo
              /\ parts[k].lo = IF k = 1 THEN 0 ELSE parts[k - 1].hi
        /\ pc = "done" =>
              /\ Len(parts) = splits
              /\ parts[splits].hi = n
              /\ SumSizes(parts) = n
              /\ \A r \in 0 .. n - 1 :
                    Cardinality({k \in 1 .. splits :
                        parts[k].lo <= r /\ r < parts[k].hi}) = 1

\* three rows were scored in two splits, of one and of two rows
UnevenSplitsPartitionRowsWitness ==
    /\ pc = "done" /\ n = 3 /\ splits = 2
    /\ parts[1].size = 1 /\ parts[2].size = 2

\* C3: when S >= 1 divides N, every split has exactly N/S rows, and S
\* splits are scored.
EvenSplitsEqualSize ==
    (splits >= 1 /\ n % splits = 0) =>
        /\ \A k \in 1 .. Len(parts) : parts[k].size = n \div splits
        /\ pc = "done" => Len(parts) = splits

\* two rows were scored in two splits of one row each
EvenSplitsEqualSizeWitness ==
    /\ pc = "done" /\ n = 2 /\ splits = 2
    /\ parts[1].size = 1 /\ parts[2].size = 1

\* C4: with splits > N the call is rejected before any inference: the
\* classifier is never invoked and no (mean, std) is returned.
SplitsAboveNRejected ==
    splits > n => /\ calls = <<>>
                  /\ pc # "done"

\* C5: with splits <= 0 the call is rejected before inference starts: the
\* classifier is never invoked and the aggregation returns no value.
SplitsNotPositiveRejected ==
    splits <= 0 => /\ calls = <<>>
                   /\ pc # "done"

\* C6: when the classifier raises on a batch the call ends with that
\* exception: the failing invocation is the last one, no split is scored,
\* nothing is returned, and nothing happens afterwards.
ClassifierFailureAborts ==
    [][/\ err' = "ClassifierError" =>
            /\ pc' = "raised"
            /\ Len(calls') = failAt + 1
            /\ scores' = <<>> /\ parts' = <<>>
            /\ result' = NoResult
       /\ err = "ClassifierError" => UNCHANGED vars]_vars

\* the classifier raised on the second batch, after the first was written
ClassifierFailureAbortsWitness ==
    /\ pc = "raised" /\ err = "ClassifierError"
    /\ failAt = 1 /\ Len(calls) = 2
    /\ written[0] = 1

\* C7: entering the classifier call sets train and enable_backprop to False
\* and keeps the values they had; leaving it, by return or by exception,
\* puts those values back; no other step changes the configuration, and
\* every invocation ran under the override.
ConfigOverrideScoped ==
    [][/\ pc' = "infer" =>
            /\ config'.train = FALSE /\ config'.enable_backprop = FALSE
            /\ saved' = config
       /\ pc = "infer" => config' = saved
       /\ (pc # "infer" /\ pc' # "infer") => config' = config
       /\ \A k \in 1 .. Len(calls') :
            calls'[k].train = FALSE /\ calls'[k].enable_backprop = FALSE]_vars

\* the classifier raised and the configuration is the caller's again
ConfigOverrideScopedWitness ==
    /\ pc = "raised" /\ err = "ClassifierError"
    /\ config.train = TRUE
    /\ calls[Len(calls)].train = FALSE

\* C8: 100 images, batch_size 25, 10 splits and a classifier returning the
\* same one-hot row for every image: every split's marginal is that row,
\* every split's KL is 0, and the call returns (1.0, 0.0).
OneHotScenarioScoresOne ==
    (n = 100 /\ batch_size = DefaultBatchSize /\ splits = DefaultSplits
       /\ model = "onehot" /\ pc = "done") =>
        /\ \A k \in 1 .. Len(parts) :
              /\ parts[k].marginal = [c \in Classes |-> FRat(OneHotRow[c])]
              /\ parts[k].kl = FLog(VZero)
        /\ result = [mean |-> FOne, std |-> FZero]

\* C9: when the classifier has returned the uniform row for every image
\* and 1 <= splits <= N, every split's mean KL is 0 and its score 1, and
\* the call returns mean 1 and std 0.
UniformScoresOne ==
    (model = "uniform" /\ 1 <= splits /\ splits <= n
       /\ \A r \in 0 .. n - 1 : written[r] >= 1) =>
        /\ \A k \in 1 .. Len(parts) :
              /\ parts[k].kl = FLog(VZero)
              /\ scores[k - 1] = FOne
        /\ pc = "done" => result = [mean |-> FOne, std |-> FZero]

\* three uniform rows were scored in two splits and (1, 0) was returned
UniformScoresOneWitness ==
    /\ pc = "done" /\ model = "uniform" /\ n = 3 /\ splits = 2
    /\ \A r \in 0 .. n - 1 : written[r] = 1 /\ ys[r] = UniformRow
    /\ result = [mean |-> FOne, std |-> FZero]

\* C10: a second run on the same images, classifier and configuration
\* makes the same classifier calls on the same row ranges and ends as the
\* first did, with the same (mean, std).
RerunIdentical ==
    (run = 2 /\ pc \in {"done", "raised"}) =>
        /\ prev.pc = pc /\ prev.err = err
        /\ prev.calls = calls
        /\ prev.result = result

\* C11: a split's score depends on that split's rows only: when the
\* probability matrices of two calls agree on the rows
\* [s*N//S, (s+1)*N//S) of split s, whatever their other rows, the two
\* scores of split s are equal; and every split index gets one score, no
\* index more than one.
SplitScoreFromOwnRows ==
    /\ \A s \in DOMAIN stored : stored[s] <= 1
    /\ pc = "done" =>
          /\ DOMAIN stored = 0 .. splits - 1
          /\ \A s \in DOMAIN stored : stored[s] = 1
    /\ (run = 2 /\ prev.pc = "done") =>
          \A k \in 1 .. Len(parts) :
             (\A r \in 0 .. n - 1 :
                 (((k - 1) * n) \div splits <= r /\ r < (k * n) \div splits)
                     => ys[r] = prev.ys[r])
             => scores[k - 1] = prev.scores[k - 1]

\* two calls whose matrices differ in row 0 and agree on rows 1 and 2, the
\* rows of the second of two splits, gave that split the same score
SplitScoreFromOwnRowsWitness ==
    /\ run = 2 /\ pc = "done" /\ prev.pc = "done"
    /\ n = 3 /\ splits = 2 /\ batch_size = 1
    /\ ys[0] # prev.ys[0]
    /\ ys[1] = prev.ys[1] /\ ys[2] = prev.ys[2] /\ ys[1] # ys[2]
    /\ scores[1] = prev.scores[1] /\ scores[1] # FOne
    /\ stored[0] = 1 /\ stored[1] = 1

\* C12: no step of inception_score changes an element of the caller's ims,
\* whether the batch handed to the classifier is a resized copy or, at
\* 299x299, a slice of ims itself; so ims is as it was when the call
\* returns or raises.
InputImagesUnchanged == [][ims' = ims]_vars

\* a call on 299x299 images, whose batches were slices of ims, has returned
InputImagesUnchangedWitness ==
    /\ pc = "done" /\ shape = <<299, 299>> /\ model = "perimage"
    /\ n = 2 /\ ims[0] = 0 /\ ims[1] = 1
    /\ Len(calls) >= 1 /\ \A k \in 1 .. Len(calls) : calls[k].view

\* C13: the batches are run in the order 0, 1, ..., and a row is written
\* only by its batch; no split is scored before every batch has been run
\* and its rows written; the splits are scored in the order 0, 1, ..., a
\* score being stored only when its split is scored; and (mean, std) is
\* produced only when all S scores are stored.
SequentialOrder ==
    /\ \A k \in 1 .. Len(calls) : calls[k].index = k - 1
    /\ \A r \in 0 .. n - 1 :
          written[r] >= 1 =>
             \E k \in 1 .. Len(calls) : calls[k].lo <= r /\ r < calls[k].hi
    /\ (parts # <<>> \/ stored # <<>> \/ result # NoResult) =>
          /\ Len(calls) = (IF n_batches > 0 THEN n_batches ELSE 0)
          /\ \A k \in 1 .. Len(calls) : \A r \in 0 .. n - 1 :
                (calls[k].lo <= r /\ r < calls[k].hi) => written[r] >= 1
    /\ \A k \in 1 .. Len(parts) : parts[k].index = k - 1
    /\ \A s \in DOMAIN stored : stored[s] >= 1 <=> s < Len(parts)
    /\ result # NoResult =>
          /\ pc = "done"
          /\ Len(parts) = splits
          /\ \A s \in 0 .. splits - 1 : stored[s] = 1

\* two batches, then two splits, then the result
SequentialOrderWitness ==
    /\ pc = "done" /\ result # NoResult
    /\ n = 3 /\ batch_size = 2 /\ splits = 2
    /\ Len(calls) = 2 /\ calls[2].index = 1
    /\ Len(parts) = 2 /\ parts[2].index = 1
    /\ \A r \in 0 .. n - 1 : written[r] = 1

\* C14: for N >= 0 and batch_size >= 1 the batch loop comes to its end
\* (or the classifier raises), and it ends after ceil(N / batch_size)
\* classifier invocations, never making more; every invocation gets at
\* least 1 and at most batch_size images, every one that is not the last
\* gets batch_size, and the last gets N - (n_batches - 1) * batch_size.
BatchCounts ==
    LET nb == Len(calls)
    IN  /\ \A k \in 1 .. nb :
              /\ 1 <= calls[k].size /\ calls[k].size <= batch_size
              /\ (k - 1) * batch_size < n
              /\ k * batch_size < n => calls[k].size = batch_size
        /\ LoopDone =>
              /\ nb * batch_size >= n
              /\ nb >= 1 => calls[nb].size = n - (nb - 1) * batch_size

BatchLoopTerminates ==
    /\ [](batch_size >= 1 => BatchCounts)
    /\ (batch_size >= 1 /\ pc = "start")
           ~> (LoopDone \/ err = "ClassifierError")

\* three images in batches of two: two invocations, of 2 and of 1 image
BatchLoopTerminatesWitness ==
    /\ LoopDone /\ n = 3 /\ batch_size = 2
    /\ Len(calls) = 2 /\ calls[1].size = 2 /\ calls[2].size = 1

\* C15: for every integer batch_size and every N, whenever inception_score
\* has returned a (mean, std) result, every row of ys that a split read
\* had been written with a classifier output before: no split read a row
\* of the buffer of xp.empty that was still uninitialised.
AggregationReadsWrittenRows ==
    pc = "done" =>
        \A k \in 1 .. Len(parts) : parts[k].fresh = {}

====
